---------------------------- MODULE Spec2Model ----------------------------
(***************************************************************************)
(* Model of src/tools/dem_manager.py: DEMTile (one opened GeoTIFF with its *)
(* WGS84 footprint and its nearest-pixel sampler) and DEMManager (tile     *)
(* selection for a batch of points, and the per-point elevation query).    *)
(*                                                                         *)
(* Coordinates are integers.  One degree is DegUnits units and epsilon_deg *)
(* is one unit, so that a pixel (2 or 4 units wide) has points in its      *)
(* first half, on its centre and in its second half, and the epsilon       *)
(* margin of a footprint is narrower than half a pixel, as in the program. *)
(* A point is <<lat, lon>>, as the program's coords entries are.           *)
(***************************************************************************)
EXTENDS Integers, Sequences, FiniteSets, TLC

VARIABLES
  folder,     \* the directory listing of dem_folder: what glob("*.tif") yields, in order
  tiles,      \* DEMManager.tiles: the paths of the loaded DEMTile objects, in list order
  last        \* the most recent call on the manager: its inputs and what it did

vars == <<folder, tiles, last>>

-----------------------------------------------------------------------------
(* Bounds of the model.                                                    *)

MaxListing == 3     \* files in the directory listing
MaxBatch == 2       \* points in one batch handed to load_tiles_for_coords

-----------------------------------------------------------------------------
(* The files the folder may hold.  `pattern` and the captured groups are   *)
(* what the two regular expressions of the name parsers yield on the file  *)
(* name; the raster fields are what gdal.Open exposes for the file.        *)

DegUnits == 8
epsilon_deg == 1

Files == {"F1", "F2", "F3", "F4", "F5", "F6", "F7"}

FileName ==
  [ F1 |-> "swissalti3d_2019_2600-1199_0.5_2056_5728.tif",
    F2 |-> "swissalti3d_2019_2600-1199_2_2056_5728.tif",
    F3 |-> "swissalti3d_2021_2600-1199_0.5_2056_5728.tif",
    F4 |-> "swissalti3d_2019_2601-1199_2_2056_5728.tif",
    F5 |-> "ASTGTMV003_N00E000_dem.tif",
    F6 |-> "ASTGTMV003_N00E001_dem.tif",
    F7 |-> "swissalti3d_2019_2600-1199_0.5.1_2056_5728.tif" ]

NameGroups ==
  [ F1 |-> [pattern |-> "swiss", g1 |-> 2600, g2 |-> 1199, g3 |-> "0.5"],
    F2 |-> [pattern |-> "swiss", g1 |-> 2600, g2 |-> 1199, g3 |-> "2"],
    F3 |-> [pattern |-> "swiss", g1 |-> 2600, g2 |-> 1199, g3 |-> "0.5"],
    F4 |-> [pattern |-> "swiss", g1 |-> 2601, g2 |-> 1199, g3 |-> "2"],
    F5 |-> [pattern |-> "aster", g1 |-> 0,    g2 |-> 0,    g3 |-> ""],
    F6 |-> [pattern |-> "aster", g1 |-> 0,    g2 |-> 1,    g3 |-> ""],
    F7 |-> [pattern |-> "swiss", g1 |-> 2600, g2 |-> 1199, g3 |-> "0.5.1"] ]

(* GetGeoTransform (x0, px_w, y0, px_h; the rotation terms are 0),         *)
(* RasterXSize, RasterYSize, the EPSG code of GetProjection, and           *)
(* GetNoDataValue (hasNodata FALSE: None).  The Swisstopo rasters are in   *)
(* LV95 (EPSG 2056), the ASTER rasters in WGS84 (EPSG 4326).               *)
Raster ==
  [ F1 |-> [x0 |-> 102, px_w |-> 2, y0 |-> 205, px_h |-> -2, rx |-> 2, ry |-> 2,
            epsg |-> 2056, hasNodata |-> TRUE, nodata |-> -9999, base |-> 100],
    F2 |-> [x0 |-> 102, px_w |-> 4, y0 |-> 205, px_h |-> -4, rx |-> 1, ry |-> 1,
            epsg |-> 2056, hasNodata |-> TRUE, nodata |-> -9999, base |-> 200],
    F3 |-> [x0 |-> 102, px_w |-> 2, y0 |-> 205, px_h |-> -2, rx |-> 2, ry |-> 2,
            epsg |-> 2056, hasNodata |-> TRUE, nodata |-> -9999, base |-> 300],
    F4 |-> [x0 |-> 104, px_w |-> 4, y0 |-> 205, px_h |-> -4, rx |-> 2, ry |-> 1,
            epsg |-> 2056, hasNodata |-> TRUE, nodata |-> -9999, base |-> 400],
    F5 |-> [x0 |-> 0,   px_w |-> 4, y0 |-> 8,   px_h |-> -4, rx |-> 2, ry |-> 2,
            epsg |-> 4326, hasNodata |-> FALSE, nodata |-> 0, base |-> 500],
    F6 |-> [x0 |-> 8,   px_w |-> 4, y0 |-> 8,   px_h |-> -4, rx |-> 2, ry |-> 2,
            epsg |-> 4326, hasNodata |-> FALSE, nodata |-> 0, base |-> 600],
    F7 |-> [x0 |-> 102, px_w |-> 2, y0 |-> 205, px_h |-> -2, rx |-> 2, ry |-> 2,
            epsg |-> 2056, hasNodata |-> TRUE, nodata |-> -9999, base |-> 700] ]

(* band.ReadAsArray(px, py, 1, 1)[0, 0]: the stored pixel.  Pixel (1, 1)   *)
(* of F1 holds the nodata sentinel.                                        *)
ReadPixel(f, px, py) ==
  IF f = "F1" /\ px = 1 /\ py = 1 THEN Raster[f].nodata
  ELSE Raster[f].base + 10 * px + py

(* The query points <<lat, lon>> a caller may ask about.                   *)
Points == { <<4, 5>>, <<4, 4>>, <<7, 9>> }

Batches == { b \in SUBSET Points : Cardinality(b) <= MaxBatch }

-----------------------------------------------------------------------------
(* Helpers.                                                                *)

SetMin(S) == CHOOSE x \in S : \A y \in S : x <= y
SetMax(S) == CHOOSE x \in S : \A y \in S : x >= y

Range(s) == { s[i] : i \in 1..Len(s) }

(* math.floor(n / d + 0.5) for integers n and d # 0.                       *)
FloorHalf(n, d) ==
  IF d > 0 THEN (2 * n + d) \div (2 * d)
  ELSE (-(2 * n) - d) \div (-(2 * d))

(* osr.CoordinateTransformation between WGS84 and LV95: the two directions *)
(* are inverse to each other and neither is the identity.                  *)
ToDem(lon, lat) == <<lon + 100, lat + 200>>
ToWgs84(x, y) == <<x - 100, y - 200>>

-----------------------------------------------------------------------------
(* DEMTile.                                                                *)

(* What may go wrong while a call runs: nothing, gdal.Open failing on one  *)
(* file, or the reprojection of a footprint corner failing for one file.   *)
NoFault == [kind |-> "none", file |-> ""]

LoadFaults(listing) ==
  {NoFault}
    \cup { [kind |-> "open", file |-> f] : f \in Range(listing) }
    \cup { [kind |-> "corner", file |-> f] :
             f \in { g \in Range(listing) : Raster[g].epsg # 4326 } }

(* self.need_transform = (self.epsg not in (None, 4326))                   *)
need_transform(epsg) == epsg # 4326

(* DEMTile.__init__ up to the footprint: "ok", or the exception it raises. *)
OpenTile(f, fault) ==
  IF fault.kind = "open" /\ fault.file = f THEN "OpenError"
  ELSE IF fault.kind = "corner" /\ fault.file = f /\ need_transform(Raster[f].epsg)
       THEN "ReprojectionError"
  ELSE "ok"

(* The four grid corners of a raster r, in its own coordinates.            *)
Corners(r) ==
  { <<r.x0, r.y0>>,
    <<r.x0 + r.rx * r.px_w, r.y0>>,
    <<r.x0, r.y0 + r.ry * r.px_h>>,
    <<r.x0 + r.rx * r.px_w, r.y0 + r.ry * r.px_h>> }

CornersWgs(corners, transform) ==
  { IF transform THEN ToWgs84(c[1], c[2]) ELSE c : c \in corners }

(* The bounding box of the corners, widened by epsilon on every side.      *)
Footprint(corners_wgs) ==
  [ minlon |-> SetMin({ c[1] : c \in corners_wgs }) - epsilon_deg,
    maxlon |-> SetMax({ c[1] : c \in corners_wgs }) + epsilon_deg,
    minlat |-> SetMin({ c[2] : c \in corners_wgs }) - epsilon_deg,
    maxlat |-> SetMax({ c[2] : c \in corners_wgs }) + epsilon_deg ]

(* The fields of a DEMTile built from an opened raster r of file f.        *)
TileFields(f, r, box) ==
  [ path |-> f, gt |-> <<r.x0, r.px_w, 0, r.y0, 0, r.px_h>>, rx |-> r.rx, ry |-> r.ry,
    need_transform |-> need_transform(r.epsg),
    minlon |-> box.minlon, maxlon |-> box.maxlon,
    minlat |-> box.minlat, maxlat |-> box.maxlat,
    hasNodata |-> r.hasNodata, nodata |-> r.nodata ]

(* DEMTile(path), when __init__ does not raise.                            *)
DEMTile(f) ==
  TileFields(f, Raster[f],
             Footprint(CornersWgs(Corners(Raster[f]), need_transform(Raster[f].epsg))))

bbox_contains_latonly(t, lat, lon) == t.minlat <= lat /\ lat <= t.maxlat

bbox_contains(t, lat, lon) ==
  (t.minlat <= lat /\ lat <= t.maxlat) /\ (t.minlon <= lon /\ lon <= t.maxlon)

(* The point in the raster's coordinates (lines 76-79).                    *)
NativeXY(t, lat, lon) == IF t.need_transform THEN ToDem(lon, lat) ELSE <<lon, lat>>

(* px and py of lines 81-84 for the native point xy.                       *)
PixelIndex(t, xy) ==
  [px |-> FloorHalf(xy[1] - t.gt[1], t.gt[2]), py |-> FloorHalf(xy[2] - t.gt[4], t.gt[6])]

NoData == [kind |-> "nodata", val |-> 0]
Raised == [kind |-> "raise", val |-> 0]

(* Lines 94-96 on the pixel value z that was read.                         *)
Filtered(t, z) ==
  IF t.hasNodata /\ z = t.nodata THEN NoData ELSE [kind |-> "value", val |-> z]

(* Lines 86-96 for the pixel index i.                                      *)
ReadAt(t, i) ==
  IF ~(0 <= i.px /\ i.px < t.rx /\ 0 <= i.py /\ i.py < t.ry) THEN NoData
  ELSE Filtered(t, ReadPixel(t.path, i.px, i.py))

(* DEMTile.get_elevation: a value, None ("nodata"), or the exception of a  *)
(* failing TransformPoint ("raise"; only a tile that reprojects can fail). *)
TileElevation(t, lat, lon, reprojFails) ==
  IF t.need_transform /\ reprojFails THEN Raised
  ELSE ReadAt(t, PixelIndex(t, NativeXY(t, lat, lon)))

-----------------------------------------------------------------------------
(* DEMManager: the name parsers.                                           *)

(* float(m.group(3)) on the text matched by [\d\.]+, in tenths of a metre; *)
(* a text with two dots is matched by the pattern and rejected by float.   *)
ParseFloat(text) ==
  CASE text = "0.5" -> [ok |-> TRUE, val |-> 5]
    [] text = "2"   -> [ok |-> TRUE, val |-> 20]
    [] OTHER        -> [ok |-> FALSE, val |-> 0]

(* Lines 167-170 on the groups m of a matching name, res being float's     *)
(* result: type "ValueError" when float raises.                            *)
SwissInfo(m, res) ==
  IF ~res.ok THEN [type |-> "ValueError", ix |-> m.g1, iy |-> m.g2, res |-> 0]
  ELSE [type |-> "swiss", ix |-> m.g1, iy |-> m.g2, res |-> res.val]

(* _parse_swisstopo_name: type "none" for a name the pattern rejects (the  *)
(* program's None).                                                        *)
parse_swisstopo_name(f) ==
  IF NameGroups[f].pattern # "swiss" THEN [type |-> "none", ix |-> 0, iy |-> 0, res |-> 0]
  ELSE SwissInfo(NameGroups[f], ParseFloat(NameGroups[f].g3))

(* Lines 176-179: the 1 x 1 degree cell with south-west corner (lat, lon). *)
AsterInfo(lat, lon) ==
  [ type |-> "aster",
    minlat |-> lat * DegUnits, maxlat |-> (lat + 1) * DegUnits,
    minlon |-> lon * DegUnits, maxlon |-> (lon + 1) * DegUnits ]

(* _parse_aster_name.                                                      *)
parse_aster_name(f) ==
  IF NameGroups[f].pattern # "aster"
  THEN [type |-> "none", minlat |-> 0, maxlat |-> 0, minlon |-> 0, maxlon |-> 0]
  ELSE AsterInfo(NameGroups[f].g1, NameGroups[f].g2)

-----------------------------------------------------------------------------
(* DEMManager.load_tiles_for_coords.                                       *)

(* min and max of the batch's latitudes and longitudes.                    *)
Box(coords) ==
  [ minlat |-> SetMin({ c[1] : c \in coords }), maxlat |-> SetMax({ c[1] : c \in coords }),
    minlon |-> SetMin({ c[2] : c \in coords }), maxlon |-> SetMax({ c[2] : c \in coords }) ]

(* The overlap test of lines 137-138 and 144-145.                          *)
Overlaps(t, box) ==
  ~(t.maxlat < box.minlat \/ t.minlat > box.maxlat \/
    t.maxlon < box.minlon \/ t.minlon > box.maxlon)

(* The loop of lines 118-128: info[i] is info_swiss of the i-th path.      *)
(* The keys of swiss_groups come in insertion order: a dict keeps the      *)
(* order in which its keys were first set, so a cell is placed where its   *)
(* first file is listed.  heads are the positions of those files.          *)
GroupHeads(info) ==
  SelectSeq([i \in 1..Len(info) |-> i],
            LAMBDA i : /\ info[i].type = "swiss"
                       /\ \A j \in 1..(i - 1) :
                            ~(info[j].type = "swiss" /\ info[j].ix = info[i].ix
                                                     /\ info[j].iy = info[i].iy))

(* swiss_groups[key] for the cell of head h: the positions of one cell's   *)
(* files, in listing order.                                                *)
Entries(info, h) ==
  SelectSeq([i \in 1..Len(info) |-> i],
            LAMBDA i : /\ info[i].type = "swiss"
                       /\ info[i].ix = info[h].ix /\ info[i].iy = info[h].iy)

FirstListed(info, entries) == entries[1]

(* entries.sort(key = resolution); entries[0]: the sort is stable, so the  *)
(* first listed entry of the smallest resolution comes first.              *)
FinestEntry(info, entries) ==
  SetMin({ i \in Range(entries) : \A j \in Range(entries) : info[i].res <= info[j].res })

(* finest_path of every cell, in the order of swiss_groups.                *)
FinestPaths(listing, info, heads) ==
  [k \in 1..Len(heads) |-> listing[FinestEntry(info, Entries(info, heads[k]))]]

(* aster_tiles, in listing order.  A name reaches the ASTER parser only    *)
(* when the Swisstopo parser rejected it.                                  *)
AsterTiles(listing) ==
  SelectSeq(listing, LAMBDA f : parse_swisstopo_name(f).type = "none"
                                /\ parse_aster_name(f).type = "aster")

(* A loop that builds a DEMTile for the files of `paths` in order: the     *)
(* position at which DEMTile raises, Len(paths) + 1 when none does.        *)
RaisesAt(paths, fault) ==
  SetMin({ k \in 1..(Len(paths) + 1) : k = Len(paths) + 1 \/ OpenTile(paths[k], fault) # "ok" })

(* What a loop over `paths` that stops at position `stop` has opened, and  *)
(* the exception it ended with.                                            *)
Opened(paths, stop) == SubSeq(paths, 1, IF stop <= Len(paths) THEN stop ELSE Len(paths))
ErrorAt(paths, stop, fault) ==
  IF stop <= Len(paths) THEN OpenTile(paths[stop], fault) ELSE "none"

(* The loop of lines 133-139 over the finest paths: a DEMTile is built for *)
(* each and the path kept when the footprint overlaps the box; the loop    *)
(* ends where DEMTile raises.                                              *)
SelectFine(finest, stop, box, fault) ==
  [ err |-> ErrorAt(finest, stop, fault),
    opened |-> Opened(finest, stop),
    chosen |-> SelectSeq(SubSeq(finest, 1, stop - 1), LAMBDA f : Overlaps(DEMTile(f), box)) ]

AlwaysWithAster(fine, aster_tiles, box) ==
  fine \o SelectSeq(aster_tiles, LAMBDA f : Overlaps(parse_aster_name(f), box))

(* Lines 141-146: the ASTER tiles are consulted only when no Swisstopo     *)
(* tile was chosen.                                                        *)
ChosenPaths(fine, aster_tiles, box) ==
  IF fine = <<>>
  THEN SelectSeq(aster_tiles, LAMBDA f : Overlaps(parse_aster_name(f), box))
  ELSE fine

(* Line 148: [DEMTile(p) for p in chosen_paths]; the comprehension ends    *)
(* where DEMTile raises.                                                   *)
OpenAll(fine, chosen_paths, stop, fault) ==
  [ err |-> ErrorAt(chosen_paths, stop, fault),
    opened |-> fine.opened \o Opened(chosen_paths, stop),
    chosen |-> chosen_paths ]

(* Lines 141-148, after the overlap loop gave `fine`: not reached when    *)
(* that loop raised.                                                       *)
FinalPass(fine, listing, box, fault) ==
  IF fine.err # "none" THEN fine
  ELSE OpenAll(fine, ChosenPaths(fine.chosen, AsterTiles(listing), box),
               RaisesAt(ChosenPaths(fine.chosen, AsterTiles(listing), box), fault), fault)

(* Lines 130-148 for the finest paths of the cells.                        *)
SelectAndOpen(finest, listing, box, fault) ==
  FinalPass(SelectFine(finest, RaisesAt(finest, fault), box, fault), listing, box, fault)

(* Lines 112-128 and on, info being the parsed names of the listing.       *)
Classified(listing, info, box, fault) ==
  IF \E i \in 1..Len(info) : info[i].type = "ValueError"
  THEN [err |-> "ValueError", opened |-> <<>>, chosen |-> <<>>]
  ELSE SelectAndOpen(FinestPaths(listing, info, GroupHeads(info)), listing, box, fault)

(* The whole call: the exception it ends with ("none": it returns), the    *)
(* files it handed to gdal.Open, in order, and chosen_paths.  min() of an  *)
(* empty batch raises ValueError.                                          *)
LoadResult(listing, coords, fault) ==
  IF coords = {} THEN [err |-> "ValueError", opened |-> <<>>, chosen |-> <<>>]
  ELSE Classified(listing, [i \in 1..Len(listing) |-> parse_swisstopo_name(listing[i])],
                  Box(coords), fault)

AppendedToOld(old, res) ==
  IF res.err = "none" THEN old \o [k \in 1..Len(res.chosen) |-> DEMTile(res.chosen[k])] ELSE old

ClearedOnError(old, res) ==
  IF res.err = "none" THEN [k \in 1..Len(res.chosen) |-> DEMTile(res.chosen[k])] ELSE <<>>

(* self.tiles is assigned once, by line 148, after every DEMTile of the    *)
(* new list was built: a call that raises leaves the old list.             *)
TilesAfterLoad(old, res) ==
  IF res.err = "none" THEN [k \in 1..Len(res.chosen) |-> DEMTile(res.chosen[k])] ELSE old

-----------------------------------------------------------------------------
(* DEMManager.get_elevation.                                               *)

(* What the call ends with when the loop sampled the tiles at the          *)
(* positions `probed` and the samples gave `results`: the last sample, or  *)
(* None when no tile was sampled.                                          *)
QueryOutcome(probed, results) ==
  [ status |-> IF results = <<>> THEN "nodata"
               ELSE IF results[Len(results)].kind = "raise" THEN "raised"
               ELSE results[Len(results)].kind,
    val |-> IF results = <<>> THEN 0 ELSE results[Len(results)].val,
    sampled |-> probed,
    results |-> results ]

(* The samples of the tiles at the positions `probed`.                     *)
Samples(probed, lat, lon, failing) ==
  [k \in 1..Len(probed) |-> TileElevation(tiles[probed[k]], lat, lon, failing = probed[k])]

(* The positions the loop of lines 153-157 samples: those of the tiles     *)
(* whose footprint contains the point, up to the first whose sample is not *)
(* None (it returns the value, or its exception leaves the call).          *)
FirstContaining(lat, lon, failing) ==
  SelectSeq([i \in 1..Len(tiles) |-> i],
            LAMBDA i : /\ bbox_contains(tiles[i], lat, lon)
                       /\ \A j \in 1..(i - 1) : ~bbox_contains(tiles[j], lat, lon))

Probed(lat, lon, failing) ==
  SelectSeq([i \in 1..Len(tiles) |-> i],
            LAMBDA i : /\ bbox_contains(tiles[i], lat, lon)
                       /\ \A j \in 1..(i - 1) :
                            bbox_contains(tiles[j], lat, lon) =>
                              TileElevation(tiles[j], lat, lon, failing = j).kind = "nodata")

(* The loop over self.tiles.                                               *)
Probe(probed, lat, lon, failing) ==
  QueryOutcome(probed, Samples(probed, lat, lon, failing))

-----------------------------------------------------------------------------
(* The state machine.                                                      *)

NoCall == [op |-> "none"]

(* DEMManager.__init__ on a folder that holds no file yet.                 *)
Init ==
  /\ folder = <<>>
  /\ tiles = <<>>
  /\ last = NoCall

(* A file appears in the folder, at the end of the listing (every order of *)
(* every set of files is reached by adding the files in that order).  The  *)
(* program never writes to the folder, and the model lets files only       *)
(* arrive: the tiles loaded earlier are then those of a shorter listing.   *)
AddFile(f) ==
  /\ Len(folder) < MaxListing
  /\ f \notin Range(folder)
  /\ folder' = Append(folder, f)
  /\ last' = NoCall
  /\ UNCHANGED tiles

(* The faults that change what a call does: those on a file the call       *)
(* hands to gdal.Open.  A fault on a file it never opens is no fault.      *)
EffectiveFaults(listing, opened) ==
  { fault \in LoadFaults(listing) : fault = NoFault \/ fault.file \in Range(opened) }

(* The end of load_tiles_for_coords(coords) whose run gave res.  The       *)
(* program closes no dataset: one is closed when its DEMTile object is no  *)
(* longer referenced.  The tiles opened for the overlap test are           *)
(* referenced by the local t alone and are gone when the call ends; the    *)
(* tiles of the replaced list are gone unless the caller still references  *)
(* that list (line 149 hands out self.tiles itself), which is what `held`  *)
(* says.  stillOpen counts the datasets that are open when the call ends   *)
(* and belong to no tile of self.tiles.                                    *)
Finish(coords, res, held) ==
  /\ held => (res.err = "none" /\ tiles # <<>>)
  /\ tiles' = TilesAfterLoad(tiles, res)
  /\ last' = [ op |-> "load", coords |-> coords,
               status |-> IF res.err = "none" THEN "ok" ELSE "error",
               error |-> res.err, opened |-> res.opened,
               stillOpen |-> IF held THEN Len(tiles) ELSE 0,
               repeat |-> /\ last.op = "load"
                          /\ last.status = "ok"
                          /\ res.err = "none"
                          /\ Box(last.coords) = Box(coords) ]
  /\ UNCHANGED folder

(* load_tiles_for_coords(coords).                                          *)
Load(coords, fault, held) == Finish(coords, LoadResult(folder, coords, fault), held)

(* get_elevation(lat, lon).  `failing` is the list position of the tile    *)
(* whose TransformPoint fails during this call, 0 for none.                *)
Query(pt, failing) ==
  /\ last' = [ op |-> "query", point |-> pt, failing |-> failing ]
               @@ Probe(Probed(pt[1], pt[2], failing), pt[1], pt[2], failing)
  /\ UNCHANGED <<folder, tiles>>

Next ==
  \/ \E f \in Files : AddFile(f)
  \/ \E coords \in Batches :
       \E fault \in EffectiveFaults(folder, LoadResult(folder, coords, NoFault).opened) :
         \E held \in BOOLEAN : Load(coords, fault, held)
  \/ \E pt \in Points :
       \E failing \in {0} \cup { i \in 1..Len(tiles) : tiles[i].need_transform } :
         Query(pt, failing)

Spec == Init /\ [][Next]_vars

-----------------------------------------------------------------------------
(* Vocabulary of the properties, stated on the file names and the rasters  *)
(* rather than through the operators of the model.                         *)

IsSwiss(f) == NameGroups[f].pattern = "swiss"
IsAster(f) == NameGroups[f].pattern = "aster"
SameCell(f, g) == NameGroups[f].g1 = NameGroups[g].g1 /\ NameGroups[f].g2 = NameGroups[g].g2
Resolution(f) == ParseFloat(NameGroups[f].g3)

SwissInFolder == { f \in Range(folder) : IsSwiss(f) }
AsterInFolder == { f \in Range(folder) : IsAster(f) }
CellGroup(f) == { g \in SwissInFolder : SameCell(f, g) }

(* Two boxes share a point.                                                *)
BoxesMeet(a, b) ==
  /\ a.minlat <= b.maxlat /\ b.minlat <= a.maxlat
  /\ a.minlon <= b.maxlon /\ b.minlon <= a.maxlon

PointIn(pt, a) ==
  /\ a.minlat <= pt[1] /\ pt[1] <= a.maxlat
  /\ a.minlon <= pt[2] /\ pt[2] <= a.maxlon

(* The 1 x 1 degree cell an ASTER file name stands for.                    *)
NamedCell(f) ==
  [ minlat |-> NameGroups[f].g1 * DegUnits, maxlat |-> NameGroups[f].g1 * DegUnits + DegUnits,
    minlon |-> NameGroups[f].g2 * DegUnits, maxlon |-> NameGroups[f].g2 * DegUnits + DegUnits ]

(* The footprint of a file, from its raster: the grid's extent (pixel      *)
(* widths are positive and pixel heights negative in every raster of the   *)
(* catalogue), in degrees, widened by epsilon.                             *)
GridBox(f) ==
  LET r == Raster[f]
      shift == IF r.epsg = 4326 THEN <<0, 0>> ELSE <<100, 200>>
  IN [ minlon |-> r.x0 - shift[1] - epsilon_deg,
       maxlon |-> r.x0 + r.rx * r.px_w - shift[1] + epsilon_deg,
       minlat |-> r.y0 + r.ry * r.px_h - shift[2] - epsilon_deg,
       maxlat |-> r.y0 - shift[2] + epsilon_deg ]

(* The paths of the loaded tiles, in list order.                           *)
Loaded == [i \in 1..Len(tiles) |-> tiles[i].path]
LoadedSet == Range(Loaded)

(* The files of smallest resolution of their cell whose footprint meets    *)
(* the box of the last batch, and the ASTER files whose named cell does.   *)
FinestInFolder ==
  { f \in SwissInFolder : \A g \in CellGroup(f) : Resolution(f).val <= Resolution(g).val }
FineHits == { f \in FinestInFolder : BoxesMeet(GridBox(f), Box(last.coords)) }
CoarseHits == { f \in AsterInFolder : BoxesMeet(NamedCell(f), Box(last.coords)) }

LoadReturned == last.op = "load" /\ last.status = "ok"
LoadRaised == last.op = "load" /\ last.status = "error"
QueryReturned == last.op = "query" /\ last.status # "raised"

NoDuplicates(seq) == \A i, j \in 1..Len(seq) : seq[i] = seq[j] => i = j

(* The fractional pixel coordinate n / d lies strictly between 0 and r.    *)
StrictlyWithin(n, d, r) ==
  \/ d > 0 /\ 0 < n /\ n < r * d
  \/ d < 0 /\ 0 > n /\ n > r * d

(* The point in the coordinates of the raster of f, relative to the        *)
(* raster's origin.                                                        *)
FromOrigin(f, pt) ==
  LET r == Raster[f]
  IN IF r.epsg = 4326 THEN <<pt[2] - r.x0, pt[1] - r.y0>>
     ELSE <<pt[2] + 100 - r.x0, pt[1] + 200 - r.y0>>

StrictlyInsideGrid(f, pt) ==
  /\ StrictlyWithin(FromOrigin(f, pt)[1], Raster[f].px_w, Raster[f].rx)
  /\ StrictlyWithin(FromOrigin(f, pt)[2], Raster[f].px_h, Raster[f].ry)

-----------------------------------------------------------------------------
(* C1: of the Swisstopo files of one grid cell, load_tiles_for_coords      *)
(* opens at most one, that file has the smallest resolution of the cell,   *)
(* and a call that returns has opened exactly one file of every cell.      *)
C1_FinestOfCellOnly ==
  last.op = "load" =>
    \A f \in SwissInFolder :
      LET openedOfCell == { g \in CellGroup(f) : g \in Range(last.opened) }
      IN /\ Cardinality(openedOfCell) <= 1
         /\ \A o \in openedOfCell : \A g \in CellGroup(f) :
              Resolution(g).ok /\ Resolution(o).val <= Resolution(g).val
         /\ last.status = "ok" => Cardinality(openedOfCell) = 1

(* A call returned on a folder that lists a coarser file of a cell before  *)
(* a finer one, and opened the finer one.                                  *)
C1_Witness ==
  /\ LoadReturned
  /\ \E i, j \in 1..Len(folder) :
       /\ i < j
       /\ IsSwiss(folder[i]) /\ IsSwiss(folder[j]) /\ SameCell(folder[i], folder[j])
       /\ Resolution(folder[j]).val < Resolution(folder[i]).val
       /\ folder[j] \in Range(last.opened)

(* C2: after a call that returns, the loaded tiles are the ASTER tiles     *)
(* whose named cell meets the batch's box when no finest Swisstopo tile's  *)
(* footprint meets the box, and otherwise one finest tile of every cell    *)
(* whose footprint meets the box and no ASTER tile.                        *)
C2_FallbackAllOrNothing ==
  LoadReturned =>
    /\ NoDuplicates(Loaded)
    /\ IF FineHits = {}
       THEN LoadedSet = CoarseHits
       ELSE /\ LoadedSet \subseteq FineHits
            /\ \A f \in FineHits : \E t \in LoadedSet : SameCell(f, t)
            /\ \A t1, t2 \in LoadedSet : SameCell(t1, t2) => t1 = t2

(* Swisstopo tiles were loaded although they cover only part of the batch: *)
(* a point of the batch lies in no loaded tile and in the named cell of an *)
(* ASTER file of the folder.                                               *)
C2_Witness ==
  /\ LoadReturned
  /\ tiles # <<>>
  /\ \A t \in LoadedSet : IsSwiss(t)
  /\ \E pt \in last.coords : \E a \in AsterInFolder :
       /\ PointIn(pt, NamedCell(a))
       /\ \A t \in LoadedSet : ~PointIn(pt, GridBox(t))

(* C3: a query that returns gives the sample of the first loaded tile, by  *)
(* list position, whose footprint contains the point and whose sample is a *)
(* value, and gives None when there is no such tile.                       *)
C3_FirstValueInListOrder ==
  QueryReturned =>
    LET pt == last.point
        good == { i \in 1..Len(tiles) :
                    /\ PointIn(pt, GridBox(Loaded[i]))
                    /\ TileElevation(tiles[i], pt[1], pt[2], FALSE).kind = "value" }
    IN IF good = {}
       THEN last.status = "nodata"
       ELSE /\ last.status = "value"
            /\ last.val = TileElevation(tiles[SetMin(good)], pt[1], pt[2], FALSE).val
            /\ last.sampled[Len(last.sampled)] = SetMin(good)

(* The first tile that contains the point sampled None and a later tile    *)
(* gave the value.                                                         *)
C3_Witness ==
  /\ QueryReturned
  /\ last.status = "value"
  /\ Len(last.sampled) >= 2
  /\ last.results[1].kind = "nodata"

(* C4: a sample of a point strictly inside the tile's pixel grid reads the *)
(* pixel at (floor(px + 0.5), floor(py + 0.5)), which is a pixel of the    *)
(* raster, and returns it (None only when the pixel holds the nodata       *)
(* value).                                                                 *)
C4_InteriorPointReadsPixel ==
  last.op = "query" =>
    \A k \in 1..Len(last.sampled) :
      LET f == Loaded[last.sampled[k]]
          i == [ px |-> FloorHalf(FromOrigin(f, last.point)[1], Raster[f].px_w),
                 py |-> FloorHalf(FromOrigin(f, last.point)[2], Raster[f].px_h) ]
      IN (StrictlyInsideGrid(f, last.point) /\ last.results[k].kind # "raise") =>
           /\ 0 <= i.px /\ i.px < Raster[f].rx
           /\ 0 <= i.py /\ i.py < Raster[f].ry
           /\ IF Raster[f].hasNodata /\ ReadPixel(f, i.px, i.py) = Raster[f].nodata
              THEN last.results[k].kind = "nodata"
              ELSE last.results[k] = [kind |-> "value", val |-> ReadPixel(f, i.px, i.py)]

(* C5: when gdal.Open fails on one file, the call still returns, and every *)
(* other candidate that meets the box is loaded.                           *)
C5_OpenFailureDropsOneFile ==
  (last.op = "load" /\ last.error = "OpenError") =>
    LET failed == last.opened[Len(last.opened)]
        expected == IF FineHits \ {failed} # {} THEN FineHits \ {failed}
                    ELSE CoarseHits \ {failed}
    IN /\ last.status = "ok"
       /\ failed \notin LoadedSet
       /\ expected \subseteq LoadedSet

(* C6: a reprojection failure inside one tile's sample counts as None for  *)
(* that tile: the query returns, with the value of the first other tile    *)
(* that contains the point and has one.                                    *)
C6_ReprojectionFailureIsNoData ==
  (last.op = "query" /\ last.failing # 0) =>
    LET pt == last.point
        good == { i \in 1..Len(tiles) :
                    /\ i # last.failing
                    /\ PointIn(pt, GridBox(Loaded[i]))
                    /\ TileElevation(tiles[i], pt[1], pt[2], FALSE).kind = "value" }
    IN /\ last.status # "raised"
       /\ IF good = {} THEN last.status = "nodata"
          ELSE /\ last.status = "value"
               /\ last.val = TileElevation(tiles[SetMin(good)], pt[1], pt[2], FALSE).val

(* C7: a query samples only tiles whose footprint contains the point; for  *)
(* a point outside the footprint of every loaded tile it samples no tile   *)
(* and returns None.                                                       *)
C7_OutsideAllFootprints ==
  last.op = "query" =>
    /\ \A k \in 1..Len(last.sampled) : PointIn(last.point, GridBox(Loaded[last.sampled[k]]))
    /\ (\A i \in 1..Len(tiles) : ~PointIn(last.point, GridBox(Loaded[i]))) =>
         (last.status = "nodata" /\ last.sampled = <<>>)

(* Tiles are loaded and the point queried lies outside all of them.        *)
C7_Witness ==
  /\ last.op = "query"
  /\ tiles # <<>>
  /\ \A i \in 1..Len(tiles) : ~PointIn(last.point, GridBox(Loaded[i]))
  /\ last.status = "nodata"

(* C8: a call that returns, made right after a call that returned on the   *)
(* same listing with a batch of the same bounding box, leaves the same     *)
(* ordered tile list, whatever the tiles were before the first of the two. *)
C8_SameInputsSameList ==
  [][ ( /\ LoadReturned
        /\ last'.op = "load" /\ last'.status = "ok"
        /\ folder' = folder
        /\ Box(last'.coords) = Box(last.coords) )
      => tiles' = tiles ]_vars

(* The same load was made twice in a row and left tiles loaded.            *)
C8_Witness ==
  /\ LoadReturned
  /\ last.repeat
  /\ tiles # <<>>

(* C9: when a call returns, no dataset is open but those of the tiles of   *)
(* the current list.                                                       *)
C9_OnlyCurrentTilesOpen ==
  last.op = "load" => last.stillOpen = 0

(* C10: a call that raises leaves the tile list as it was; the list only   *)
(* changes in a call that returns, and every tile of the new list was      *)
(* opened by that call.                                                    *)
C10_ErrorKeepsTiles ==
  [][ /\ (last'.op = "load" /\ last'.status = "error") => tiles' = tiles
      /\ tiles' # tiles =>
           /\ last'.op = "load" /\ last'.status = "ok"
           /\ \A i \in 1..Len(tiles') : tiles'[i].path \in Range(last'.opened) ]_vars

(* A call raised while tiles of an earlier batch were loaded.              *)
C10_Witness ==
  /\ LoadRaised
  /\ tiles # <<>>

=============================================================================
